---- MODULE Spec2Model ----
(***************************************************************************)
(* Frame resolution cache of nur: the frameFetcherMachine (an XState       *)
(* machine, lib/frame-fetcher.machine.ts) together with the lru-cache      *)
(* instance it owns and the fetchFrame callback actor it invokes.          *)
(*                                                                         *)
(* The machine context is (frameIndex, data, error, cache); its control    *)
(* state is `state`.  The invoked callback is `fetchFrame`: the index it    *)
(* was started with and the promise it is currently waiting on             *)
(* (openDB -> getFrameFromIDB -> createImageBitmap).  `mailbox` holds the   *)
(* events the callback sent back while the machine was still processing    *)
(* the transition that started it.                                         *)
(***************************************************************************)
EXTENDS Integers, Sequences, FiniteSets, TLC

\* ----------------------------------------------------------------- bounds
\* Highest frame index the timeline requests (frames are 0..MaxFrame).
MaxFrame == 2
\* Number of FETCH_FRAME events sent in one behaviour.
MaxRequests == 4
\* LRUCache option max (100 in the source), scaled down.
max == 2
\* LRUCache option ttl (300000 ms in the source), scaled down to clock ticks.
ttl == 2
\* The clock runs from 0 to MaxTime, far enough for an entry to go stale.
MaxTime == ttl + 1

\* Scene ids given to the store key are built from at most this many pieces.
MaxScenePieces == 2
\* Highest frame index given to the store key (two decimal digits).
MaxKeyIndex == 11
\* Number of fetcher snapshots the frame renderer is given in one behaviour.
MaxSnapshots == 5

\* Frames per second of the scene (24 by default in the source), scaled down.
fps == 2
\* The timeline's time is counted in steps of 1 / (fps * SubFrame) second:
\* the pointer can stand on SubFrame different times within one frame.
SubFrame == 2
\* The current time is clamped to 0..MaxSeconds seconds (30 in the source).
MaxSeconds == 3
\* Highest framesCount of a scene shown on the timeline.
MaxFramesCount == 4

\* A directory selected for import holds 1..MaxFiles files.
MaxFiles == 3
\* The framesCount the PROGRESS_COMPLETE handler writes to the scene row.
FramesCountOnComplete == 240

\* The pointer of the pen tool stands on x = 0..MaxX of one row of the stage.
MaxX == 1
\* A path is drawn with at most MaxPoints points.
MaxPoints == 3

Frames == 0..MaxFrame

\* ------------------------------------------------------------ value space
\* context.frameIndex: null
NoIndex == -1
\* context.data: null
NoData == [frame |-> NoIndex, form |-> "none"]
\* context.error: null
NoError == [frame |-> NoIndex, kind |-> "none"]
\* The File stored under `${sceneId}_frame_${k}` (what store.get returns).
FrameData(k) == [frame |-> k, form |-> "raw"]
\* createImageBitmap(frameData): the decoded bitmap of frame k.
Bitmap(k) == [frame |-> k, form |-> "bitmap"]
\* The error a rejected promise of the fetch for frame k carries.
FetchError(k, kind) == [frame |-> k, kind |-> kind]
\* The fetchFrame callback actor is not running / has nothing pending.
NoFetch == [phase |-> "none", idx |-> NoIndex]
\* Rejections of getFrameFromIDB that reach the catch and are sent back.
ReadErrors == {"NotFound", "Io"}

VARIABLES
  state,         \* control state of frameFetcherMachine
  frameIndex,    \* context.frameIndex
  data,          \* context.data
  error,         \* context.error
  cache,         \* context.cache: entries, least recently used first
  fetchFrame,    \* the invoked fetchFrame callback and its pending promise
  mailbox,       \* events queued for the machine by sendBack
  now,           \* the clock lru-cache reads (performance.now())
  nreq,          \* number of FETCH_FRAME events sent so far
  lastReq,       \* key of the most recently sent FETCH_FRAME
  recency,       \* every key ever used in the cache, least recent use first
  removedCount,  \* entries removed from the cache (evicted, expired, replaced)
  releaseCount,  \* close() calls made on values removed from the cache
  last,          \* what the last step did
  stopped,       \* editorActor.stop() was called: the machine's actor is stopped
  pending,       \* promise chains of fetchFrame callbacks started and not yet ended
  insertedAt,    \* for each cached key the time of the cache.set that stored it
  readSincePut,  \* cached keys a cache.get has returned since they were stored
  keyIn,         \* two (scene id, frame index) pairs given to the store key
  keyOut,        \* the store keys computed for them
  layer,         \* children of the Konva layer "current-frame"
  snapshot,      \* the fetcher snapshot last given to the frame renderer
  prevLayer,     \* the layer's children before that snapshot was given
  nsnap,         \* number of snapshots given to the frame renderer
  currentTime,   \* currentTimeSecondsAtom, in steps of 1 / (fps * SubFrame) s
  isScrubbing,   \* the timeline's isScrubbing state
  framesCount,   \* the scene row's framesCount cell
  scrubbed,      \* the key of the last FETCH_FRAME the timeline sent, if any
  saveState,        \* control state of directorySaveMachine
  directoryName,    \* context.directoryName
  totalFiles,       \* context.totalFiles
  savedFiles,       \* context.savedFiles
  errorMessage,     \* context.errorMessage
  currentFileName,  \* context.currentFileName
  iDBKeyPrefix,     \* context.iDBKeyPrefix: the id of the scene of the route
  worker,           \* the web worker of the invoked callback: where it stands
  outbox,           \* messages the worker posted, not yet given to onmessage
  idb,              \* object store "files" of "file-storage-db": key and file
  sceneFramesCount, \* cell framesCount of the scene's row in scenesStore
  stored,           \* positions the worker of this session has stored, in order
  posted,           \* types of the messages the worker of this session posted
  penState,         \* control state of bezierPenToolMachine (leaf state)
  points,           \* context.points
  tempPoints,       \* context.tempPoints
  mousePosition,    \* context.mousePosition
  isDrawing,        \* context.isDrawing
  output            \* the output of the machine's snapshot, once it is done

\* The variables of the machine, its callback and their bookkeeping.
machineVars == <<state, frameIndex, data, error, cache, fetchFrame, mailbox,
                 now, nreq, lastReq, recency, removedCount, releaseCount,
                 last, stopped, pending, insertedAt, readSincePut>>

\* The store key computation is checked on its own (KeySpec); the steps of
\* the machine leave its variables alone.
keyVars == <<keyIn, keyOut>>

\* The components around the machine (frame renderer, timeline, frame import)
\* are checked on their own as well.
renderVars == <<layer, snapshot, prevLayer, nsnap>>

timelineVars == <<currentTime, isScrubbing, framesCount, scrubbed>>

saveVars == <<saveState, directoryName, totalFiles, savedFiles, errorMessage,
              currentFileName, iDBKeyPrefix, worker, outbox, idb,
              sceneFramesCount, stored, posted>>

penVars == <<penState, points, tempPoints, mousePosition, isDrawing, output>>

editorVars == <<renderVars, timelineVars, saveVars, penVars>>

vars == <<state, frameIndex, data, error, cache, fetchFrame, mailbox, now,
          nreq, lastReq, recency, removedCount, releaseCount, last, stopped,
          pending, insertedAt, readSincePut, keyIn, keyOut, layer, snapshot,
          prevLayer, nsnap, currentTime, isScrubbing, framesCount, scrubbed,
          saveState, directoryName, totalFiles, savedFiles, errorMessage,
          currentFileName, iDBKeyPrefix, worker, outbox, idb,
          sceneFramesCount, stored, posted, penState, points, tempPoints,
          mousePosition, isDrawing, output>>

\* ------------------------------------------------------------- lru-cache
RECURSIVE RemoveKey(_, _)
RemoveKey(c, k) ==
  IF c = <<>> THEN <<>>
  ELSE IF Head(c).key = k THEN RemoveKey(Tail(c), k)
  ELSE <<Head(c)>> \o RemoveKey(Tail(c), k)

Keys(c) == {c[i].key : i \in 1..Len(c)}

Entry(c, k) == c[CHOOSE i \in 1..Len(c) : c[i].key = k]

\* IsStale without a ttl: no entry ever goes stale.
IsStale_NoTtl(e, t) == FALSE

\* An entry is stale once its age exceeds the ttl.
IsStale(e, t) == t - e.start > ttl

\* CacheHit looking the number key up as a string: no lookup finds an entry.
CacheHit_KeyMismatch(c, k, t) == FALSE

\* cache.get(k) returns a value (the entry is present and not stale).
CacheHit(c, k, t) == k \in Keys(c) /\ ~IsStale(Entry(c, k), t)

\* The value cache.get(k) returns; undefined is NoData.
CacheGetValue(c, k, t) ==
  IF CacheHit(c, k, t) THEN Entry(c, k).value ELSE NoData

\* CacheAfterGet with updateAgeOnGet: a hit restarts the entry's age.
CacheAfterGet_UpdateAge(c, k, t) ==
  IF k \notin Keys(c) THEN c
  ELSE IF IsStale(Entry(c, k), t) THEN RemoveKey(c, k)
  ELSE RemoveKey(c, k) \o <<[Entry(c, k) EXCEPT !.start = t]>>

\* CacheAfterGet that does not refresh the recency of the entry it returns.
CacheAfterGet_NoTouch(c, k, t) ==
  IF k \notin Keys(c) THEN c
  ELSE IF IsStale(Entry(c, k), t) THEN RemoveKey(c, k)
  ELSE c

\* The cache after cache.get(k): a hit moves the entry to the most recently
\* used end, a stale entry is deleted, an absent key changes nothing.
CacheAfterGet(c, k, t) ==
  IF k \notin Keys(c) THEN c
  ELSE IF IsStale(Entry(c, k), t) THEN RemoveKey(c, k)
  ELSE RemoveKey(c, k) \o <<Entry(c, k)>>

\* CacheSet that never evicts.
CacheSet_NoEvict(c, k, v, t) ==
  LET e == [key |-> k, value |-> v, start |-> t] IN
  IF k \in Keys(c) THEN RemoveKey(c, k) \o <<e>>
  ELSE c \o <<e>>

\* The cache after cache.set(k, v) at time t: an existing key is replaced
\* and becomes most recently used; a new key at full capacity evicts the
\* least recently used entry.
CacheSet(c, k, v, t) ==
  LET e == [key |-> k, value |-> v, start |-> t] IN
  IF k \in Keys(c) THEN RemoveKey(c, k) \o <<e>>
  ELSE IF Len(c) >= max THEN Tail(c) \o <<e>>
  ELSE c \o <<e>>

\* -------------------------------------------------------------- store key
\* The literal "_frame_" of the key template, as a sequence of characters.
separator == <<"_", "f", "r", "a", "m", "e", "_">>

\* String(index) for a non-negative integer: its decimal digits.
RECURSIVE DecimalString(_)
DecimalString(n) ==
  LET digit(d) == <<"0", "1", "2", "3", "4", "5", "6", "7", "8", "9">>[d + 1]
  IN IF n < 10 THEN <<digit(n)>>
     ELSE DecimalString(n \div 10) \o <<digit(n % 10)>>

\* StoreKey that leaves the separator out.
StoreKey_NoSeparator(sceneId, index) == sceneId \o DecimalString(index)

\* `${sceneId}_frame_${frameIndex}`
StoreKey(sceneId, index) == sceneId \o separator \o DecimalString(index)

\* Scene ids the key is checked on: strings made of digits, underscores and
\* the separator text itself.
ScenePieces == {<<"1">>, <<"_">>, separator}

RECURSIVE SceneIdsUpTo(_)
SceneIdsUpTo(n) ==
  IF n = 0 THEN {<<>>}
  ELSE LET S == SceneIdsUpTo(n - 1)
       IN S \cup {x \o y : x \in S, y \in ScenePieces}

KeyPairs ==
  [sceneId : SceneIdsUpTo(MaxScenePieces), index : 0..MaxKeyIndex]

\* ------------------------------------------------------------ ghost state
RECURSIVE RemoveElem(_, _)
RemoveElem(s, k) ==
  IF s = <<>> THEN <<>>
  ELSE IF Head(s) = k THEN RemoveElem(Tail(s), k)
  ELSE <<Head(s)>> \o RemoveElem(Tail(s), k)

\* A use of key k (a put or a get that returned a value) makes k the most
\* recently used key.
Used(r, k) == RemoveElem(r, k) \o <<k>>

Pos(r, k) == CHOOSE i \in 1..Len(r) : r[i] = k

\* The record of a step: the operation, the key it was about, the machine
\* state, frame index and data before it; for a cache.get whether it was made
\* (got), whether it returned a value (hit) and the age of the entry it
\* found; for a cache.set the key it evicted and that entry's start time; for a
\* cache.get also the time since the key was stored (putAge) and whether an
\* earlier cache.get had returned the entry (wasRead).
Step(op, k) ==
  [op |-> op, key |-> k, prev |-> state, pidx |-> frameIndex, pdata |-> data,
   got |-> FALSE, hit |-> FALSE, age |-> -1, evicted |-> NoIndex,
   estart |-> -1, putAge |-> -1, wasRead |-> FALSE]

\* The bookkeeping of insertion times keeps the keys that are in cache c.
Forget(f, c) == [k \in Frames |-> IF k \in Keys(c) THEN f[k] ELSE -1]

\* ------------------------------------------------------- the state chart
\* initial of a machine that starts by opening the database in setup.
initial_Setup == "setup"

\* initial: "idle"
initial == "idle"

\* The transitions the machine declares: the state they are declared in, the
\* event, the state they lead to (a transition without target stays where it
\* is) and whether their actions assign context.db.
transitions ==
  {[from |-> "setup", event |-> "done", target |-> "idle", assignsDb |-> TRUE],
   [from |-> "setup", event |-> "error", target |-> "error",
    assignsDb |-> FALSE],
   [from |-> "idle", event |-> "FETCH_FRAME", target |-> "fetching",
    assignsDb |-> FALSE],
   [from |-> "fetching", event |-> "FETCH_FRAME", target |-> "fetching",
    assignsDb |-> FALSE],
   [from |-> "fetching", event |-> "RESOLVE", target |-> "success",
    assignsDb |-> FALSE],
   [from |-> "fetching", event |-> "REJECT", target |-> "error_fatal",
    assignsDb |-> FALSE],
   [from |-> "success", event |-> "FETCH_FRAME", target |-> "fetching",
    assignsDb |-> FALSE],
   [from |-> "error", event |-> "FETCH_FRAME", target |-> "fetching",
    assignsDb |-> FALSE]}

\* The states that can be reached from the states S along the transitions.
RECURSIVE ReachableFrom(_)
ReachableFrom(S) ==
  LET T == S \cup {t.target : t \in {u \in transitions : u.from \in S}}
  IN IF T = S THEN S ELSE ReachableFrom(T)

\* The control states the machine can reach from its initial state.
reachable == ReachableFrom({initial})

\* The declared changes of control state, as pairs.
edges == {<<t.from, t.target>> : t \in transitions}

\* ------------------------------------------------------------------- Init
\* The machine right after createActor(editorMachine).start().
MachineInit ==
  /\ state = initial
  /\ frameIndex = NoIndex
  /\ data = NoData
  /\ error = NoError
  /\ cache = <<>>
  /\ fetchFrame = NoFetch
  /\ mailbox = <<>>
  /\ now = 0
  /\ nreq = 0
  /\ lastReq = NoIndex
  /\ recency = <<>>
  /\ removedCount = 0
  /\ releaseCount = 0
  /\ last = [op |-> "init", key |-> NoIndex, prev |-> "idle",
             pidx |-> NoIndex, pdata |-> NoData, got |-> FALSE, hit |-> FALSE,
             age |-> -1, evicted |-> NoIndex, estart |-> -1,
             putAge |-> -1, wasRead |-> FALSE]
  /\ stopped = FALSE
  /\ pending = 0
  /\ insertedAt = [k \in Frames |-> -1]
  /\ readSincePut = {}

\* The frame renderer has just subscribed to the fetcher: the layer
\* "current-frame" is a new, empty Konva.Layer.
RendererInit ==
  /\ layer = <<>>
  /\ snapshot = [state |-> "idle", data |-> NoData]
  /\ prevLayer = <<>>
  /\ nsnap = 0

\* The timeline of a new scene: currentTimeSecondsAtom is atom(0), the
\* framesCount cell has its default 0, nothing was scrubbed.
TimelineInit ==
  /\ currentTime = 0
  /\ isScrubbing = FALSE
  /\ framesCount = 0
  /\ scrubbed = <<>>

\* No worker exists (none was created yet, or it was terminated).
NoWorker == [phase |-> "none", i |-> 0, files |-> 0]

\* directorySaveMachine right after useActorRef created it for scene id, and
\* the store before any import.
SaverInit(id) ==
  /\ saveState = "idle"
  /\ directoryName = "null"
  /\ totalFiles = 0
  /\ savedFiles = 0
  /\ errorMessage = ""
  /\ currentFileName = ""
  /\ iDBKeyPrefix = id
  /\ worker = NoWorker
  /\ outbox = <<>>
  /\ idb = {}
  /\ sceneFramesCount = 0
  /\ stored = <<>>
  /\ posted = <<>>

\* bezierPenToolMachine right after it was created: the initial context, the
\* initial state idle (its entry clearTemp changes nothing yet), no output.
PenInit ==
  /\ penState = "idle"
  /\ points = <<>>
  /\ tempPoints = <<>>
  /\ mousePosition = [x |-> 0, y |-> 0]
  /\ isDrawing = FALSE
  /\ output = <<>>

\* The components around the machine before they have done anything.
EditorInit ==
  /\ RendererInit
  /\ TimelineInit
  /\ SaverInit(<<"1">>)
  /\ PenInit

Init ==
  /\ MachineInit
  /\ keyIn = <<>>
  /\ keyOut = <<>>
  /\ EditorInit

\* ----------------------------------------------------- machine transitions
\* setframeIndex that leaves data and error as they are.
setframeIndex_KeepsOutcome(k) ==
  /\ frameIndex' = k
  /\ UNCHANGED <<data, error>>

\* actions.setframeIndex
setframeIndex(k) ==
  /\ frameIndex' = k
  /\ data' = NoData
  /\ error' = NoError

\* fetching.invoke: entry to fetching starts the fetchFrame callback with the
\* frame index of the context.  It looks the key up in the cache; a value
\* found is sent back at once (the machine is still inside the transition, so
\* the RESOLVE waits in its mailbox), otherwise openDB is called.
InvokeFetchFrame(k) ==
  LET hit == CacheHit(cache, k, now)
      age == IF k \in Keys(cache) THEN now - Entry(cache, k).start ELSE -1
  IN
  /\ cache' = CacheAfterGet(cache, k, now)
  /\ recency' = IF hit THEN Used(recency, k) ELSE recency
  /\ removedCount' = removedCount + (Len(cache) - Len(cache'))
  /\ releaseCount' = releaseCount
  /\ IF hit
     THEN /\ mailbox' = Append(mailbox, [type |-> "RESOLVE",
                                         data |-> CacheGetValue(cache, k, now)])
          /\ fetchFrame' = NoFetch
     ELSE /\ mailbox' = mailbox
          /\ fetchFrame' = [phase |-> "open", idx |-> k]
  /\ pending' = IF hit THEN pending ELSE pending + 1
  /\ insertedAt' = Forget(insertedAt, cache')
  /\ readSincePut' = IF hit THEN readSincePut \cup {k}
                     ELSE readSincePut \cap Keys(cache')
  /\ last' = [Step("request", k) EXCEPT
                !.got = TRUE, !.hit = hit, !.age = age,
                !.putAge = IF insertedAt[k] >= 0 THEN now - insertedAt[k]
                           ELSE -1,
                !.wasRead = k \in readSincePut]

\* The timeline sends FETCH_FRAME; the machine takes it in its next turn.
SendRequest(k) ==
  /\ mailbox = <<>>
  /\ nreq < MaxRequests
  /\ nreq' = nreq + 1
  /\ lastReq' = k

\* idle.on.FETCH_FRAME: target fetching, setframeIndex
RequestIdle(k) ==
  /\ state = "idle"
  /\ ~stopped
  /\ SendRequest(k)
  /\ setframeIndex(k)
  /\ state' = "fetching"
  /\ InvokeFetchFrame(k)
  /\ UNCHANGED now
  /\ UNCHANGED <<stopped, keyVars, editorVars>>

\* success.on.FETCH_FRAME: target fetching, setframeIndex
RequestSuccess(k) ==
  /\ state = "success"
  /\ ~stopped
  /\ SendRequest(k)
  /\ setframeIndex(k)
  /\ state' = "fetching"
  /\ InvokeFetchFrame(k)
  /\ UNCHANGED now
  /\ UNCHANGED <<stopped, keyVars, editorVars>>

\* RequestFetching with target fetching: the state is re-entered and the
\* callback invoked again.
RequestFetching_Reenter(k) ==
  /\ state = "fetching"
  /\ ~stopped
  /\ SendRequest(k)
  /\ setframeIndex(k)
  /\ state' = "fetching"
  /\ InvokeFetchFrame(k)
  /\ UNCHANGED now
  /\ UNCHANGED <<stopped, keyVars, editorVars>>

\* fetching.on.FETCH_FRAME: setframeIndex, no target: fetching is not
\* re-entered and the running callback keeps the index it was started with.
RequestFetching(k) ==
  /\ state = "fetching"
  /\ ~stopped
  /\ SendRequest(k)
  /\ setframeIndex(k)
  /\ last' = Step("request", k)
  /\ UNCHANGED <<state, cache, fetchFrame, mailbox, now, recency, removedCount,
                 releaseCount>>
  /\ UNCHANGED <<pending, insertedAt, readSincePut>>
  /\ UNCHANGED <<stopped, keyVars, editorVars>>

\* error_fatal is a final state: the actor has stopped and drops the event;
\* so does an actor stopped by editorActor.stop().
RequestStopped(k) ==
  /\ state = "error_fatal" \/ stopped
  /\ SendRequest(k)
  /\ last' = Step("dropped", k)
  /\ UNCHANGED <<state, frameIndex, data, error, cache, fetchFrame, mailbox, now,
                 recency, removedCount, releaseCount>>
  /\ UNCHANGED <<pending, insertedAt, readSincePut>>
  /\ UNCHANGED <<stopped, keyVars, editorVars>>

\* OnResolve without the assign of data.
OnResolve_NoAssign(d) ==
  IF state = "fetching" /\ ~stopped
  THEN /\ state' = "success"
       /\ data' = data
  ELSE UNCHANGED <<state, data>>

\* fetching.on.RESOLVE: target success, data := event.data.  Leaving
\* fetching stops the invoked callback.  No other state handles RESOLVE, and
\* sendBack of a stopped callback sends nothing.
OnResolve(d) ==
  IF state = "fetching" /\ ~stopped
  THEN /\ state' = "success"
       /\ data' = d
  ELSE UNCHANGED <<state, data>>

\* OnReject without the setError action.
OnReject_NoSetError(e) ==
  IF state = "fetching" /\ ~stopped
  THEN /\ state' = "error_fatal"
       /\ error' = error
  ELSE UNCHANGED <<state, error>>

\* fetching.on.REJECT: target error_fatal, setError
OnReject(e) ==
  IF state = "fetching" /\ ~stopped
  THEN /\ state' = "error_fatal"
       /\ error' = e
  ELSE UNCHANGED <<state, error>>

\* The machine takes the RESOLVE the callback sent back on a cache hit.
DeliverResolve ==
  /\ mailbox # <<>>
  /\ Head(mailbox).type = "RESOLVE"
  /\ OnResolve(Head(mailbox).data)
  /\ mailbox' = Tail(mailbox)
  /\ fetchFrame' = NoFetch
  /\ last' = Step("resolve", frameIndex)
  /\ UNCHANGED <<frameIndex, error, cache, now, nreq, lastReq, recency,
                 removedCount, releaseCount>>
  /\ UNCHANGED <<pending, insertedAt, readSincePut>>
  /\ UNCHANGED <<stopped, keyVars, editorVars>>

\* -------------------------------------------------- the callback's promises
\* openDB(...) fulfils: getFrameFromIDB is called with `${sceneId}_frame_${idx}`.
OpenDone ==
  /\ mailbox = <<>>
  /\ fetchFrame.phase = "open"
  /\ fetchFrame' = [fetchFrame EXCEPT !.phase = "get"]
  /\ last' = Step("open", fetchFrame.idx)
  /\ UNCHANGED <<state, frameIndex, data, error, cache, mailbox, now, nreq,
                 lastReq, recency, removedCount, releaseCount>>
  /\ UNCHANGED <<pending, insertedAt, readSincePut>>
  /\ UNCHANGED <<stopped, keyVars, editorVars>>

\* openDB(...) rejects: the catch is attached inside the then callback, so
\* nothing handles the rejection and nothing is sent back.
OpenFail ==
  /\ mailbox = <<>>
  /\ fetchFrame.phase = "open"
  /\ fetchFrame' = NoFetch
  /\ last' = Step("openfail", fetchFrame.idx)
  /\ UNCHANGED <<state, frameIndex, data, error, cache, mailbox, now, nreq,
                 lastReq, recency, removedCount, releaseCount>>
  /\ pending' = pending - 1
  /\ UNCHANGED <<insertedAt, readSincePut>>
  /\ UNCHANGED <<stopped, keyVars, editorVars>>

\* getFrameFromIDB fulfils with the stored frame: createImageBitmap is called.
GetFound ==
  /\ mailbox = <<>>
  /\ fetchFrame.phase = "get"
  /\ fetchFrame' = [fetchFrame EXCEPT !.phase = "decode"]
  /\ last' = Step("get", fetchFrame.idx)
  /\ UNCHANGED <<state, frameIndex, data, error, cache, mailbox, now, nreq,
                 lastReq, recency, removedCount, releaseCount>>
  /\ UNCHANGED <<pending, insertedAt, readSincePut>>
  /\ UNCHANGED <<stopped, keyVars, editorVars>>

\* GetFail of a callback that retries the store read by itself.
GetFail_Retry(kind) ==
  /\ mailbox = <<>>
  /\ fetchFrame.phase = "get"
  /\ fetchFrame' = [fetchFrame EXCEPT !.phase = "open"]
  /\ last' = Step("reject", fetchFrame.idx)
  /\ UNCHANGED <<state, error, frameIndex, data, cache, mailbox, now, nreq,
                 lastReq, recency, removedCount, releaseCount>>
  /\ UNCHANGED <<pending, insertedAt, readSincePut>>
  /\ UNCHANGED <<stopped, keyVars, editorVars>>

\* getFrameFromIDB rejects (key not found, or the transaction failed): the
\* catch sends REJECT back.
GetFail(kind) ==
  /\ mailbox = <<>>
  /\ fetchFrame.phase = "get"
  /\ OnReject(FetchError(fetchFrame.idx, kind))
  /\ fetchFrame' = NoFetch
  /\ last' = Step("reject", fetchFrame.idx)
  /\ UNCHANGED <<frameIndex, data, cache, mailbox, now, nreq, lastReq,
                 recency, removedCount, releaseCount>>
  /\ pending' = pending - 1
  /\ UNCHANGED <<insertedAt, readSincePut>>
  /\ UNCHANGED <<stopped, keyVars, editorVars>>

\* getFrameFromIDB rejects with an error named AbortError: the catch returns
\* without sending anything back.
GetAbort ==
  /\ mailbox = <<>>
  /\ fetchFrame.phase = "get"
  /\ fetchFrame' = NoFetch
  /\ last' = Step("abort", fetchFrame.idx)
  /\ UNCHANGED <<state, frameIndex, data, error, cache, mailbox, now, nreq,
                 lastReq, recency, removedCount, releaseCount>>
  /\ pending' = pending - 1
  /\ UNCHANGED <<insertedAt, readSincePut>>
  /\ UNCHANGED <<stopped, keyVars, editorVars>>

\* createImageBitmap fulfils: cache.set(idx, frameData), then RESOLVE with
\* the bitmap is sent back and taken by the machine.
DecodeOk ==
  /\ mailbox = <<>>
  /\ fetchFrame.phase = "decode"
  /\ cache' = CacheSet(cache, fetchFrame.idx, FrameData(fetchFrame.idx), now)
  /\ recency' = Used(recency, fetchFrame.idx)
  /\ removedCount' = removedCount + (Len(cache) + 1 - Len(cache'))
  /\ releaseCount' = releaseCount
  /\ OnResolve(Bitmap(fetchFrame.idx))
  /\ fetchFrame' = NoFetch
  /\ LET gone == Keys(cache) \ Keys(cache') IN
     last' = IF gone = {} THEN Step("put", fetchFrame.idx)
             ELSE LET e == CHOOSE k \in gone : TRUE IN
                  [Step("put", fetchFrame.idx) EXCEPT
                     !.evicted = e, !.estart = Entry(cache, e).start]
  /\ UNCHANGED <<frameIndex, error, mailbox, now, nreq, lastReq>>
  /\ pending' = pending - 1
  /\ insertedAt' = [Forget(insertedAt, cache') EXCEPT ![fetchFrame.idx] = now]
  /\ readSincePut' = (readSincePut \cap Keys(cache')) \ {fetchFrame.idx}
  /\ UNCHANGED <<stopped, keyVars, editorVars>>

\* DecodeFail of a callback that stores the frame before decoding it.
DecodeFail_SetBeforeDecode ==
  /\ mailbox = <<>>
  /\ fetchFrame.phase = "decode"
  /\ cache' = CacheSet(cache, fetchFrame.idx, FrameData(fetchFrame.idx), now)
  /\ OnReject(FetchError(fetchFrame.idx, "Decode"))
  /\ fetchFrame' = NoFetch
  /\ last' = Step("reject", fetchFrame.idx)
  /\ UNCHANGED <<frameIndex, data, mailbox, now, nreq, lastReq,
                 recency, removedCount, releaseCount>>
  /\ pending' = pending - 1
  /\ insertedAt' = [Forget(insertedAt, cache') EXCEPT ![fetchFrame.idx] = now]
  /\ readSincePut' = (readSincePut \cap Keys(cache')) \ {fetchFrame.idx}
  /\ UNCHANGED <<stopped, keyVars, editorVars>>

\* createImageBitmap rejects: the catch sends REJECT back.
DecodeFail ==
  /\ mailbox = <<>>
  /\ fetchFrame.phase = "decode"
  /\ OnReject(FetchError(fetchFrame.idx, "Decode"))
  /\ fetchFrame' = NoFetch
  /\ last' = Step("reject", fetchFrame.idx)
  /\ UNCHANGED <<frameIndex, data, cache, mailbox, now, nreq, lastReq,
                 recency, removedCount, releaseCount>>
  /\ pending' = pending - 1
  /\ UNCHANGED <<insertedAt, readSincePut>>
  /\ UNCHANGED <<stopped, keyVars, editorVars>>

\* Time passes.
Tick ==
  /\ mailbox = <<>>
  /\ now < MaxTime
  /\ now' = now + 1
  /\ last' = Step("tick", NoIndex)
  /\ UNCHANGED <<state, frameIndex, data, error, cache, fetchFrame, mailbox, nreq,
                 lastReq, recency, removedCount, releaseCount>>
  /\ UNCHANGED <<pending, insertedAt, readSincePut>>
  /\ UNCHANGED <<stopped, keyVars, editorVars>>

\* Route.onLeave: editorActor.stop() stops the invoked frame-fetcher actor and
\* its callback.  Nothing is cleared or cancelled: the context keeps the
\* cache, and a pending promise of the callback still runs to its end.
Stop ==
  /\ mailbox = <<>>
  /\ ~stopped
  /\ stopped' = TRUE
  /\ last' = Step("stop", NoIndex)
  /\ UNCHANGED <<state, frameIndex, data, error, cache, fetchFrame, mailbox,
                 now, nreq, lastReq, recency, removedCount, releaseCount,
                 pending, insertedAt, readSincePut, keyVars, editorVars>>

\* The machine starts in idle; no transition targets setup or error, so the
\* handlers of those two states have no step here.
Next ==
  \/ \E k \in Frames : RequestIdle(k)
  \/ \E k \in Frames : RequestSuccess(k)
  \/ \E k \in Frames : RequestFetching(k)
  \/ \E k \in Frames : RequestStopped(k)
  \/ DeliverResolve
  \/ OpenDone
  \/ OpenFail
  \/ GetFound
  \/ \E kind \in ReadErrors : GetFail(kind)
  \/ GetAbort
  \/ DecodeOk
  \/ DecodeFail
  \/ Tick
  \/ Stop

Spec == Init /\ [][Next]_vars

\* ------------------------------------------------- the store key on its own
\* Two (scene id, frame index) pairs are chosen.
KeyInit ==
  /\ MachineInit
  /\ keyIn \in KeyPairs \X KeyPairs
  /\ keyOut = <<>>
  /\ EditorInit

\* The store key of each pair is computed.
ComputeKeys ==
  /\ keyIn # <<>>
  /\ keyOut = <<>>
  /\ keyOut' = <<StoreKey(keyIn[1].sceneId, keyIn[1].index),
                 StoreKey(keyIn[2].sceneId, keyIn[2].index)>>
  /\ UNCHANGED <<state, frameIndex, data, error, cache, fetchFrame, mailbox,
                 now, nreq, lastReq, recency, removedCount, releaseCount,
                 last, stopped, pending, insertedAt, readSincePut, keyIn,
                 editorVars>>

KeyNext == ComputeKeys

KeySpec == KeyInit /\ [][KeyNext]_vars

\* ------------------------------------------- the frame renderer on its own
\* The snapshots (state value and context.data) the fetcher publishes to its
\* subscribers: data is null except in success, where it is the decoded
\* bitmap (miss path) or the stored frame the cache returned (hit path).
Snapshots ==
  {[state |-> s, data |-> NoData] : s \in {"fetching", "error_fatal"}}
    \cup {[state |-> "success", data |-> d] :
            d \in {Bitmap(k) : k \in Frames} \cup {FrameData(k) : k \in Frames}}

\* data instanceof ImageBitmap
IsImageBitmap(d) == d.form = "bitmap"

\* subscribe next that adds the image without removing the layer's children.
next_NoRemove(layerRef, d) ==
  IF IsImageBitmap(d) THEN layerRef \o <<d>> ELSE layerRef

\* subscribe({ next({ context: { data } }) ... }): the layer's children after
\* the renderer was given a snapshot with context.data = d.
next(layerRef, d) ==
  IF IsImageBitmap(d) THEN <<d>> ELSE layerRef

\* The fetcher publishes snapshot s and the renderer's subscriber runs.
FrameRenderer(s) ==
  /\ nsnap < MaxSnapshots
  /\ nsnap' = nsnap + 1
  /\ snapshot' = s
  /\ prevLayer' = layer
  /\ layer' = next(layer, s.data)
  /\ UNCHANGED <<machineVars, keyVars, timelineVars, saveVars, penVars>>

RenderInit ==
  /\ MachineInit
  /\ keyIn = <<>>
  /\ keyOut = <<>>
  /\ EditorInit

RenderNext == \E s \in Snapshots : FrameRenderer(s)

RenderSpec == RenderInit /\ [][RenderNext]_vars

\* ------------------------------------------------- the timeline on its own
\* clamp(value, min, max) of shared-state.ts
clamp(value, lo, hi) ==
  LET least == IF value < hi THEN value ELSE hi
  IN IF lo > least THEN lo ELSE least

\* The write function of updateCurrentTimeSecondsAtom.
updateCurrentTimeSecondsAtom(updated) ==
  clamp(updated, 0, MaxSeconds * fps * SubFrame)

\* timelineLengthSeconds = framesCount / fps, in time steps.
timelineLengthSeconds == framesCount * SubFrame

\* positionToTime(clientX), for a pointer standing over time t of the canvas
\* (t is negative left of the canvas and beyond the length right of it).
positionToTime(t) == clamp(t, 0, timelineLengthSeconds)

\* Math.floor(time * fps): the frame a time lies in.  \div rounds down.
FrameAt(t) == t \div SubFrame

\* onScrub(frame): framesFetcherActorRef.send({type: "FETCH_FRAME", key: frame})
onScrub(frame) == scrubbed' = <<frame>>

\* handleMouseDown with button 0
handleMouseDown(t) ==
  /\ isScrubbing' = TRUE
  /\ currentTime' = updateCurrentTimeSecondsAtom(positionToTime(t))
  /\ onScrub(FrameAt(positionToTime(t)))
  /\ UNCHANGED <<framesCount, machineVars, keyVars, renderVars, saveVars,
                 penVars>>

\* handleMouseMove while scrubbing (otherwise it only moves the hover marker)
handleMouseMove(t) ==
  /\ isScrubbing
  /\ currentTime' = updateCurrentTimeSecondsAtom(positionToTime(t))
  /\ onScrub(FrameAt(positionToTime(t)))
  /\ UNCHANGED <<isScrubbing, framesCount, machineVars, keyVars, renderVars,
                 saveVars, penVars>>

handleMouseUp ==
  /\ isScrubbing
  /\ isScrubbing' = FALSE
  /\ UNCHANGED <<currentTime, framesCount, scrubbed, machineVars, keyVars,
                 renderVars, saveVars, penVars>>

\* handleKeyboardNavigateTimeline, ArrowRight: one frame (1 / fps s) forward
ArrowRight ==
  /\ currentTime' = updateCurrentTimeSecondsAtom(currentTime + SubFrame)
  /\ onScrub(FrameAt(currentTime + SubFrame))
  /\ UNCHANGED <<isScrubbing, framesCount, machineVars, keyVars, renderVars,
                 saveVars, penVars>>

\* handleKeyboardNavigateTimeline, ArrowLeft: one frame (1 / fps s) back
ArrowLeft ==
  /\ currentTime' = updateCurrentTimeSecondsAtom(currentTime - SubFrame)
  /\ onScrub(FrameAt(currentTime - SubFrame))
  /\ UNCHANGED <<isScrubbing, framesCount, machineVars, keyVars, renderVars,
                 saveVars, penVars>>

\* A scene with some framesCount is opened.
TimelineSpecInit ==
  /\ MachineInit
  /\ keyIn = <<>>
  /\ keyOut = <<>>
  /\ RendererInit
  /\ SaverInit(<<"1">>)
  /\ PenInit
  /\ currentTime = 0
  /\ isScrubbing = FALSE
  /\ framesCount \in 0..MaxFramesCount
  /\ scrubbed = <<>>

TimelineNext ==
  \/ \E t \in -1..(timelineLengthSeconds + 1) : handleMouseDown(t)
  \/ \E t \in -1..(timelineLengthSeconds + 1) : handleMouseMove(t)
  \/ handleMouseUp
  \/ ArrowRight
  \/ ArrowLeft

TimelineSpec == TimelineSpecInit /\ [][TimelineNext]_vars

\* ------------------------------------------------ the frame import on its own
\* ImportKey that counts the files from one.
ImportKey_OneBased(prefix, i) ==
  prefix \o <<"_", "f", "r", "a", "m", "e", "_">> \o DecimalString(i + 1)

\* `${iDBKeyPrefix}_frame_${i}`: the key the worker stores files[i] under.
ImportKey(prefix, i) ==
  prefix \o <<"_", "f", "r", "a", "m", "e", "_">> \o DecimalString(i)

\* postMessage(m) in the worker
Post(m) ==
  /\ outbox' = Append(outbox, m)
  /\ posted' = Append(posted, m.type)

\* Leaving saving stops the invoked callback: its cleanup terminates the
\* worker, and the sendBack of a stopped callback sends nothing, so whatever
\* the worker had posted and was not yet handled is lost.
Terminate ==
  /\ worker' = NoWorker
  /\ outbox' = <<>>

\* idle.on.SELECT_DIRECTORY with n files (handleFileChange sends it for a
\* non-empty selection), and the entry to saving: the callback creates the
\* worker and posts START_SAVE with the files and the key prefix to it.
SELECT_DIRECTORY(n) ==
  /\ saveState = "idle"
  /\ saveState' = "saving"
  /\ directoryName' = "dir"
  /\ totalFiles' = n
  /\ savedFiles' = 0
  /\ errorMessage' = ""
  /\ worker' = [phase |-> "start", i |-> 0, files |-> n]
  /\ outbox' = <<>>
  /\ stored' = <<>>
  /\ posted' = <<>>
  /\ UNCHANGED <<currentFileName, iDBKeyPrefix, idb, sceneFramesCount>>
  /\ UNCHANGED <<machineVars, keyVars, renderVars, timelineVars, penVars>>

\* self.onmessage, START_SAVE: PROGRESS_START is posted.
StartSave ==
  /\ worker.phase = "start"
  /\ Post([type |-> "PROGRESS_START", total |-> worker.files])
  /\ worker' = [worker EXCEPT !.phase = "loop"]
  /\ UNCHANGED <<saveState, directoryName, totalFiles, savedFiles,
                 errorMessage, currentFileName, iDBKeyPrefix, idb,
                 sceneFramesCount, stored>>
  /\ UNCHANGED <<machineVars, keyVars, renderVars, timelineVars, penVars>>

\* The loop body up to the await: PROGRESS_UPDATE for files[i] is posted and
\* saveSingleFile(file, key) is called.
PostUpdate ==
  /\ worker.phase = "loop"
  /\ worker.i < worker.files
  /\ Post([type |-> "PROGRESS_UPDATE", currentIndex |-> worker.i,
           total |-> worker.files, fileName |-> worker.i])
  /\ worker' = [worker EXCEPT !.phase = "save"]
  /\ UNCHANGED <<saveState, directoryName, totalFiles, savedFiles,
                 errorMessage, currentFileName, iDBKeyPrefix, idb,
                 sceneFramesCount, stored>>
  /\ UNCHANGED <<machineVars, keyVars, renderVars, timelineVars, penVars>>

\* saveSingleFile returns status success: tx.store.put(file, key) is done.
saveSingleFile ==
  /\ worker.phase = "save"
  /\ LET key == ImportKey(iDBKeyPrefix, worker.i) IN
     idb' = {e \in idb : e.key # key} \cup {[key |-> key, file |-> worker.i]}
  /\ stored' = Append(stored, worker.i)
  /\ worker' = [worker EXCEPT !.phase = "loop", !.i = worker.i + 1]
  /\ UNCHANGED <<saveState, directoryName, totalFiles, savedFiles,
                 errorMessage, currentFileName, iDBKeyPrefix, outbox,
                 sceneFramesCount, posted>>
  /\ UNCHANGED <<machineVars, keyVars, renderVars, timelineVars, penVars>>

\* saveSingleFileError of a loop that goes on to the next file after ERROR.
saveSingleFileError_Continues(message) ==
  /\ worker.phase = "save"
  /\ Post([type |-> "ERROR", message |-> message])
  /\ worker' = [worker EXCEPT !.phase = "loop", !.i = worker.i + 1]
  /\ UNCHANGED <<saveState, directoryName, totalFiles, savedFiles,
                 errorMessage, currentFileName, iDBKeyPrefix, idb,
                 sceneFramesCount, stored>>
  /\ UNCHANGED <<machineVars, keyVars, renderVars, timelineVars, penVars>>

\* saveSingleFile returns status error (initDb gave null, or the put threw):
\* ERROR is posted and the handler returns.
saveSingleFileError(message) ==
  /\ worker.phase = "save"
  /\ Post([type |-> "ERROR", message |-> message])
  /\ worker' = [worker EXCEPT !.phase = "done"]
  /\ UNCHANGED <<saveState, directoryName, totalFiles, savedFiles,
                 errorMessage, currentFileName, iDBKeyPrefix, idb,
                 sceneFramesCount, stored>>
  /\ UNCHANGED <<machineVars, keyVars, renderVars, timelineVars, penVars>>

\* PostComplete of a loop that does not wait for the files to be stored.
PostComplete_Early ==
  /\ worker.phase = "loop"
  /\ Post([type |-> "PROGRESS_COMPLETE", total |-> worker.files])
  /\ worker' = [worker EXCEPT !.phase = "done"]
  /\ UNCHANGED <<saveState, directoryName, totalFiles, savedFiles,
                 errorMessage, currentFileName, iDBKeyPrefix, idb,
                 sceneFramesCount, stored>>
  /\ UNCHANGED <<machineVars, keyVars, renderVars, timelineVars, penVars>>

\* After the loop: PROGRESS_COMPLETE is posted.
PostComplete ==
  /\ worker.phase = "loop"
  /\ worker.i = worker.files
  /\ Post([type |-> "PROGRESS_COMPLETE", total |-> worker.files])
  /\ worker' = [worker EXCEPT !.phase = "done"]
  /\ UNCHANGED <<saveState, directoryName, totalFiles, savedFiles,
                 errorMessage, currentFileName, iDBKeyPrefix, idb,
                 sceneFramesCount, stored>>
  /\ UNCHANGED <<machineVars, keyVars, renderVars, timelineVars, penVars>>

\* The worker script fails (importScripts cannot load idb): worker.onerror
\* sends ERROR back.
WorkerOnError ==
  /\ worker.phase = "start"
  /\ Post([type |-> "ERROR", message |-> "worker"])
  /\ worker' = [worker EXCEPT !.phase = "done"]
  /\ UNCHANGED <<saveState, directoryName, totalFiles, savedFiles,
                 errorMessage, currentFileName, iDBKeyPrefix, idb,
                 sceneFramesCount, stored>>
  /\ UNCHANGED <<machineVars, keyVars, renderVars, timelineVars, penVars>>

\* worker.onmessage sends PROGRESS_START back; saving has no handler for it.
PROGRESS_START ==
  /\ outbox # <<>>
  /\ Head(outbox).type = "PROGRESS_START"
  /\ outbox' = Tail(outbox)
  /\ UNCHANGED <<saveState, directoryName, totalFiles, savedFiles,
                 errorMessage, currentFileName, iDBKeyPrefix, worker, idb,
                 sceneFramesCount, stored, posted>>
  /\ UNCHANGED <<machineVars, keyVars, renderVars, timelineVars, penVars>>

\* saving.on.PROGRESS_UPDATE
PROGRESS_UPDATE ==
  /\ outbox # <<>>
  /\ Head(outbox).type = "PROGRESS_UPDATE"
  /\ saveState = "saving"
  /\ savedFiles' = Head(outbox).currentIndex + 1
  /\ currentFileName' = Head(outbox).fileName
  /\ outbox' = Tail(outbox)
  /\ UNCHANGED <<saveState, directoryName, totalFiles, errorMessage,
                 iDBKeyPrefix, worker, idb, sceneFramesCount, stored, posted>>
  /\ UNCHANGED <<machineVars, keyVars, renderVars, timelineVars, penVars>>

\* saving.on.PROGRESS_COMPLETE: target complete, framesCount is written.
PROGRESS_COMPLETE ==
  /\ outbox # <<>>
  /\ Head(outbox).type = "PROGRESS_COMPLETE"
  /\ saveState = "saving"
  /\ saveState' = "complete"
  /\ sceneFramesCount' = FramesCountOnComplete
  /\ Terminate
  /\ UNCHANGED <<directoryName, totalFiles, savedFiles, errorMessage,
                 currentFileName, iDBKeyPrefix, idb, stored, posted>>
  /\ UNCHANGED <<machineVars, keyVars, renderVars, timelineVars, penVars>>

\* saving.on.ERROR: target error, errorMessage := event.payload.message
ERROR ==
  /\ outbox # <<>>
  /\ Head(outbox).type = "ERROR"
  /\ saveState = "saving"
  /\ saveState' = "error"
  /\ errorMessage' = Head(outbox).message
  /\ Terminate
  /\ UNCHANGED <<directoryName, totalFiles, savedFiles, currentFileName,
                 iDBKeyPrefix, idb, sceneFramesCount, stored, posted>>
  /\ UNCHANGED <<machineVars, keyVars, renderVars, timelineVars, penVars>>

\* saving.on.CANCEL: target idle
CANCEL ==
  /\ saveState = "saving"
  /\ saveState' = "idle"
  /\ Terminate
  /\ UNCHANGED <<directoryName, totalFiles, savedFiles, errorMessage,
                 currentFileName, iDBKeyPrefix, idb, sceneFramesCount, stored,
                 posted>>
  /\ UNCHANGED <<machineVars, keyVars, renderVars, timelineVars, penVars>>

\* complete.on.RESET and error.on.RESET: target idle
RESET ==
  /\ saveState \in {"complete", "error"}
  /\ saveState' = "idle"
  /\ UNCHANGED <<directoryName, totalFiles, savedFiles, errorMessage,
                 currentFileName, iDBKeyPrefix, worker, outbox, idb,
                 sceneFramesCount, stored, posted>>
  /\ UNCHANGED <<machineVars, keyVars, renderVars, timelineVars, penVars>>

\* The import dialog of a scene is opened.
SaveInit ==
  /\ MachineInit
  /\ keyIn = <<>>
  /\ keyOut = <<>>
  /\ RendererInit
  /\ TimelineInit
  /\ PenInit
  /\ \E id \in SceneIdsUpTo(1) : SaverInit(id)

SaveNext ==
  \/ \E n \in 1..MaxFiles : SELECT_DIRECTORY(n)
  \/ StartSave
  \/ PostUpdate
  \/ saveSingleFile
  \/ \E message \in {"init", "put"} : saveSingleFileError(message)
  \/ PostComplete
  \/ WorkerOnError
  \/ PROGRESS_START
  \/ PROGRESS_UPDATE
  \/ PROGRESS_COMPLETE
  \/ ERROR
  \/ CANCEL
  \/ RESET

SaveSpec == SaveInit /\ [][SaveNext]_vars

\* -------------------------------------------------- the pen tool on its own
\* The machine bezierPenToolMachine is followed through its context and its
\* control state; what its actions draw on the Konva layer is left out.

\* null as the value of control1 / control2
NoPoint == [none |-> TRUE]

\* stage.getPointerPosition() at the pointer events the stage reports
Pointer == {[x |-> c, y |-> 0] : c \in 0..MaxX}

\* The substates of drawing.
drawing == {"waitingForSecondPoint", "draggingFirstControl",
            "waitingForNextPoint", "draggingControl"}

vectorSubtract(p1, p2) == [x |-> p1.x - p2.x, y |-> p1.y - p2.y]

vectorAdd(p1, p2) == [x |-> p1.x + p2.x, y |-> p1.y + p2.y]

\* The source divides dotProduct by normalMagSq and multiplies by vNormal.x;
\* for pointer positions on one row vNormal.x is 0, so the product is whole.
mirrorControl1ToControl2OfPrevious(anchorNext, anchorPrev, control1Next) ==
  LET vDir == [x |-> anchorPrev.x - anchorNext.x,
               y |-> anchorPrev.y - anchorNext.y]
      vNormal == [x |-> -vDir.y, y |-> vDir.x]
      vP2P3 == [x |-> control1Next.x - anchorPrev.x,
                y |-> control1Next.y - anchorPrev.y]
      dotProduct == vP2P3.x * vNormal.x + vP2P3.y * vNormal.y
      normalMagSq == vNormal.x * vNormal.x + vNormal.y * vNormal.y
  IN  IF normalMagSq = 0
      THEN control1Next
      ELSE LET vProjX == (dotProduct * vNormal.x) \div normalMagSq
               vP2P3Reflected == [x |-> vP2P3.x - vProjX, y |-> vP2P3.y]
           IN  [x |-> anchorPrev.x + vP2P3Reflected.x,
                y |-> anchorPrev.y + vP2P3Reflected.y]

\* The context of the machine, as the assign actions are given it.
context == [points |-> points, tempPoints |-> tempPoints,
            mousePosition |-> mousePosition, isDrawing |-> isDrawing]

\* The context an assign action returned becomes the machine's context.
Assign(c) ==
  /\ points' = c.points
  /\ tempPoints' = c.tempPoints
  /\ mousePosition' = c.mousePosition
  /\ isDrawing' = c.isDrawing

clearTemp(c) == [c EXCEPT !.tempPoints = <<>>]

\* event.position is undefined for the events of this machine.
initializePath(c, event) ==
  [c EXCEPT !.points = <<>>, !.isDrawing = TRUE,
            !.mousePosition = [x |-> 0, y |-> 0]]

addFirstPoint(c, event) ==
  LET point == [anchor |-> [x |-> event.x, y |-> event.y],
                control1 |-> NoPoint, control2 |-> NoPoint, type |-> "move"]
  IN  [c EXCEPT !.points = <<point>>, !.tempPoints = <<point>>]

startFirstControlDrag(c, event) ==
  LET firstPoint == c.points[1]
      control2 == [x |-> event.x, y |-> event.y]
  IN  [c EXCEPT !.tempPoints =
         <<[firstPoint EXCEPT !.control2 = control2, !.type = "curve"]>>]

finishFirstControl(c) == [c EXCEPT !.points = c.tempPoints]

\* addNextPoint that starts the path over from the new point.
addNextPoint_Replace(c, event) ==
  LET lastPoint == c.points[Len(c.points)]
      control1 == IF lastPoint.control2 # NoPoint
                  THEN vectorAdd([x |-> event.x, y |-> event.y],
                         vectorSubtract(lastPoint.anchor, lastPoint.control2))
                  ELSE NoPoint
      newPoint == [anchor |-> [x |-> event.x, y |-> event.y],
                   control1 |-> control1,
                   control2 |-> [x |-> event.x, y |-> event.y],
                   type |-> "curve"]
  IN  [c EXCEPT !.points = <<newPoint>>, !.tempPoints = <<newPoint>>]

addNextPoint(c, event) ==
  LET lastPoint == c.points[Len(c.points)]
      control1 == IF lastPoint.control2 # NoPoint
                  THEN vectorAdd([x |-> event.x, y |-> event.y],
                         vectorSubtract(lastPoint.anchor, lastPoint.control2))
                  ELSE NoPoint
      newPoint == [anchor |-> [x |-> event.x, y |-> event.y],
                   control1 |-> control1,
                   control2 |-> [x |-> event.x, y |-> event.y],
                   type |-> "curve"]
  IN  [c EXCEPT !.points = Append(c.points, newPoint),
                !.tempPoints = Append(c.points, newPoint)]

\* The copy [...context.tempPoints] holds the very objects context.points
\* holds (addNextPoint and the finish actions put the same objects in both
\* arrays), so what is written to a point shows in context.points as well.
updateCurrentControl(c, event) ==
  LET n == Len(c.tempPoints)
      moved == [c.tempPoints EXCEPT
                  ![n].control2 = [x |-> event.x, y |-> event.y]]
      direction == vectorSubtract(moved[n].anchor, moved[n].control2)
      second == [moved EXCEPT ![2].control1 =
                   vectorAdd(c.mousePosition, direction)]
      both == [second EXCEPT ![1].control2 =
                 mirrorControl1ToControl2OfPrevious(
                   second[2].anchor, second[1].anchor, second[2].control1)]
      written == IF n = 2 THEN both ELSE moved
  IN  [c EXCEPT !.tempPoints = written,
                !.points = [i \in 1..Len(c.points) |->
                              IF i <= n THEN written[i] ELSE c.points[i]]]

finishCurrentControl(c) == [c EXCEPT !.points = c.tempPoints]

updateMousePosition(c, event) ==
  [c EXCEPT !.mousePosition = [x |-> event.x, y |-> event.y]]

\* idle.on.START_PATH, and the entry to drawing.waitingForSecondPoint
START_PATH(event) ==
  /\ penState = "idle"
  /\ penState' = "waitingForSecondPoint"
  /\ Assign(addFirstPoint(initializePath(context, event), event))
  /\ UNCHANGED output
  /\ UNCHANGED <<machineVars, keyVars, renderVars, timelineVars, saveVars>>

\* MOUSE_DOWN in waitingForSecondPoint and in waitingForNextPoint
MOUSE_DOWN(event) ==
  /\ \/ /\ penState = "waitingForSecondPoint"
        /\ penState' = "draggingFirstControl"
        /\ Assign(addNextPoint(startFirstControlDrag(context, event), event))
     \/ /\ penState = "waitingForNextPoint"
        /\ Len(points) < MaxPoints
        /\ penState' = "draggingControl"
        /\ Assign(addNextPoint(context, event))
  /\ UNCHANGED output
  /\ UNCHANGED <<machineVars, keyVars, renderVars, timelineVars, saveVars>>

\* MOUSE_MOVE in each substate of drawing: no transition has a target.
MOUSE_MOVE(event) ==
  /\ penState \in drawing
  /\ IF penState \in {"draggingFirstControl", "draggingControl"}
     THEN Assign(updateCurrentControl(context, event))
     ELSE Assign(updateMousePosition(context, event))
  /\ UNCHANGED <<penState, output>>
  /\ UNCHANGED <<machineVars, keyVars, renderVars, timelineVars, saveVars>>

\* MOUSE_UP in draggingFirstControl and in draggingControl
MOUSE_UP ==
  /\ penState \in {"draggingFirstControl", "draggingControl"}
  /\ penState' = "waitingForNextPoint"
  /\ IF penState = "draggingFirstControl"
     THEN Assign(finishFirstControl(context))
     ELSE Assign(finishCurrentControl(context))
  /\ UNCHANGED output
  /\ UNCHANGED <<machineVars, keyVars, renderVars, timelineVars, saveVars>>

\* waitingForNextPoint.on.DOUBLE_CLICK, and the entry to idle
DOUBLE_CLICK ==
  /\ penState = "waitingForNextPoint"
  /\ penState' = "idle"
  /\ Assign(clearTemp(context))
  /\ UNCHANGED output
  /\ UNCHANGED <<machineVars, keyVars, renderVars, timelineVars, saveVars>>

\* ESCAPE: waitingForSecondPoint cancels the path and goes back to idle,
\* waitingForNextPoint finishes it in the final state done, where the
\* machine's output is computed from the context.
ESCAPE ==
  /\ \/ /\ penState = "waitingForSecondPoint"
        /\ penState' = "idle"
        /\ Assign(clearTemp(context))
        /\ UNCHANGED output
     \/ /\ penState = "waitingForNextPoint"
        /\ penState' = "done"
        /\ Assign(context)
        /\ output' = <<[curve |-> points]>>
  /\ UNCHANGED <<machineVars, keyVars, renderVars, timelineVars, saveVars>>

\* drawing.on.FINISH_PATH, and the entry to idle
FINISH_PATH ==
  /\ penState \in drawing
  /\ penState' = "idle"
  /\ Assign(clearTemp(context))
  /\ UNCHANGED output
  /\ UNCHANGED <<machineVars, keyVars, renderVars, timelineVars, saveVars>>

\* The pen tool is chosen in the editor.
PenSpecInit ==
  /\ MachineInit
  /\ keyIn = <<>>
  /\ keyOut = <<>>
  /\ EditorInit

PenNext ==
  \/ \E event \in Pointer : START_PATH(event)
  \/ \E event \in Pointer : MOUSE_DOWN(event)
  \/ \E event \in Pointer : MOUSE_MOVE(event)
  \/ MOUSE_UP
  \/ DOUBLE_CLICK
  \/ ESCAPE
  \/ FINISH_PATH

PenSpec == PenSpecInit /\ [][PenNext]_vars

TypeOK ==
  /\ state \in {"idle", "fetching", "success", "error_fatal"}
  /\ frameIndex \in Frames \cup {NoIndex}
  /\ Len(cache) \in 0..(max + 1)
  /\ fetchFrame.phase \in {"none", "open", "get", "decode"}
  /\ Len(mailbox) <= 1
  /\ now \in 0..MaxTime
  /\ nreq \in 0..MaxRequests
  /\ stopped \in BOOLEAN
  /\ state # "idle" => [state |-> state, data |-> data] \in Snapshots

\* ================================================================= claims

\* The running callback was started for an index that is no longer the
\* requested one.
Superseded == fetchFrame.phase # "none" /\ fetchFrame.idx # frameIndex

\* C1: latest request wins.  Once request(B) has replaced the index A a
\* store read was started for, no step of the read issued for A (progress,
\* success or failure) changes the resolver's state, index, bitmap or error.
C1_LatestRequestWins ==
  [][(Superseded /\ fetchFrame' # fetchFrame)
       => UNCHANGED <<state, frameIndex, data, error>>]_vars

\* Nothing is in flight: every issued read and decode has completed and the
\* mailbox is empty.
Quiescent == nreq > 0 /\ mailbox = <<>> /\ fetchFrame.phase = "none"

\* The resolver is Resolved(K, bitmap of K) or Failed(K, error of K) for the
\* last requested index K.
Converged ==
  \/ state = "success" /\ frameIndex = lastReq /\ data.frame = lastReq
  \/ state = "error_fatal" /\ frameIndex = lastReq /\ error.frame = lastReq

\* C2: convergence.  Whenever all issued reads and decodes have completed,
\* the resolver is Resolved or Failed for the last requested index (so with
\* no further request it has converged, and stays there).
C2_Convergence == Quiescent => Converged

\* C3: in success the data is the image of the requested frame index, and in
\* the failed state the error is the error of servicing the requested index.
C3_OutcomeIsForRequestedIndex ==
  /\ state = "success" => data.frame = frameIndex
  /\ state = "error_fatal" => error.frame = frameIndex

\* C4: failure is recoverable.  A request(J) sent after the resolver failed
\* is accepted: the requested index becomes J, servicing starts, and when J
\* is not cached a store read for J is issued.
C4_FailureIsRecoverable ==
  [][(state = "error_fatal" /\ nreq' = nreq + 1)
       => /\ frameIndex' = lastReq'
          /\ state' = "fetching"
          /\ ~CacheHit(cache, lastReq', now)
               => fetchFrame' = [phase |-> "open", idx |-> lastReq']]_vars

\* C5: after any sequence of requests, sent in any resolver state, the
\* requested index is the index of the most recently sent request.
C5_RequestedIndexIsLatest == nreq > 0 => frameIndex = lastReq

\* C6: cache hit skips fetch.  When the resolver is Resolved(K, bitmap)
\* through the miss path (success, frameIndex = K, data = the decoded bitmap
\* of K) and request(K) is sent while K's entry has not expired, no store read
\* is issued: the callback sends back the cached value at once, and the
\* machine then is in success for K again.
C6_CacheHitSkipsFetch ==
  /\ (/\ last.op = "request" /\ last.prev = "success"
      /\ last.pidx = last.key /\ last.pdata = Bitmap(last.key)
      /\ last.age <= ttl)
       => /\ fetchFrame.phase = "none"
          /\ state = "fetching"
          /\ mailbox = <<[type |-> "RESOLVE", data |-> FrameData(last.key)]>>
  /\ last.op = "resolve"
       => /\ state = "success"
          /\ frameIndex = last.key
          /\ data.frame = last.key
          /\ fetchFrame.phase = "none"

\* Resolved(K) through the miss path, then request(K) answered from the cache.
C6_Witness ==
  /\ last.op = "request" /\ last.prev = "success"
  /\ last.pidx = last.key /\ last.pdata = Bitmap(last.key)
  /\ last.hit /\ fetchFrame.phase = "none"

\* C7: cache bound.  The number of entries in the cache never exceeds max.
C7_CacheBound == Len(cache) <= max

\* A put of a new key into a full cache has happened.
C7_Witness ==
  last.op = "put" /\ last.evicted # NoIndex /\ Len(cache) = max

\* C8: LRU correctness.  The entry a put evicts is the least recently used
\* one, a put and a get that returned a value both counting as a use: every
\* other key that stays in the cache was used after the evicted key's last
\* use.
C8_EvictsLeastRecentlyUsed ==
  (last.op = "put" /\ last.evicted # NoIndex)
    => /\ last.evicted \notin Keys(cache)
       /\ \A k \in Keys(cache) \ {last.key} :
            Pos(recency, last.evicted) < Pos(recency, k)

\* put(a); put(b); get(a); put(c) with a full cache: b was evicted although
\* a was inserted before it.
C8_Witness ==
  /\ last.op = "put" /\ last.evicted # NoIndex
  /\ \E k \in Keys(cache) \ {last.key} :
       Entry(cache, k).start < last.estart

C10_RemovedIsReleased == releaseCount = removedCount

\* The step is the failure of a store read or of a decode.
FetchFails ==
  fetchFrame.phase # "none" /\ last'.op \in {"openfail", "reject", "abort"}

\* C11: failures never populate the cache.  A store read or decode that fails
\* (store not opened, key not found, read error, decode error) leaves the
\* cache as it was, so no entry for its index is created.
C11_FailuresDoNotPopulate ==
  [][FetchFails => (cache' = cache /\ fetchFrame.idx \notin Keys(cache'))]_vars

\* A fetch has failed while the cache held another frame.
C11_Witness ==
  /\ last.op = "reject" /\ state = "error_fatal"
  /\ cache # <<>> /\ last.key \notin Keys(cache)

\* C12: a store read that succeeds for a superseded index (an index that is
\* no longer the requested one when the read completes) leaves the cache
\* unchanged: no entry is inserted or replaced for it.
C12_SupersededReadLeavesCache ==
  [][(Superseded /\ last'.op = "put") => cache' = cache]_vars

\* C13: for the active index K every failed store read (the store cannot be
\* opened or read, or the key is absent) moves the resolver from Fetching(K)
\* to Failed(K, kind), with the error set and the bitmap absent.
C13_ReadFailureFails ==
  [][(/\ ~stopped /\ state = "fetching"
      /\ fetchFrame.phase \in {"open", "get"} /\ fetchFrame.idx = frameIndex
      /\ last'.op \in {"openfail", "reject", "abort"})
       => /\ state' = "error_fatal"
          /\ frameIndex' = frameIndex
          /\ error'.frame = frameIndex /\ error'.kind # "none"
          /\ data' = NoData]_vars

\* C14: scene teardown.  Once the editor actor owning the resolver has been
\* stopped the cache holds no entries.
C14_StoppedCacheIsEmpty == stopped => cache = <<>>

\* C16: supersession starts new work.  After a request(K) taken while
\* fetching another index, a store read for K is in flight, or K has been
\* answered from the cache.
C16_SupersessionStartsFetch ==
  (last.op = "request" /\ last.prev = "fetching" /\ last.key # last.pidx)
    => \/ fetchFrame = [phase |-> "open", idx |-> last.key]
       \/ mailbox # <<>> /\ Head(mailbox).data.frame = last.key

\* C15: the store key is injective: two different (scene id, frame index)
\* pairs never get the same key.
C15_StoreKeyInjective ==
  (keyOut # <<>> /\ keyOut[1] = keyOut[2]) => keyIn[1] = keyIn[2]

\* Keys were computed for two different pairs that only the separator tells
\* apart (scene id followed by the index digits is the same text).
C15_Witness ==
  /\ keyOut # <<>>
  /\ keyIn[1] # keyIn[2]
  /\ keyIn[1].sceneId \o DecimalString(keyIn[1].index)
       = keyIn[2].sceneId \o DecimalString(keyIn[2].index)
  /\ keyOut[1] # keyOut[2]

\* C17: a request(K) taken while already Fetching(K) is a no-op: no store
\* read is issued, state, index, bitmap, error, callback and cache stay as
\* they are; and the result of the fetch in flight for K is still accepted
\* when it completes.
C17_SameIndexRequestIsNoOp ==
  [][/\ (/\ state = "fetching" /\ ~stopped
         /\ nreq' = nreq + 1 /\ lastReq' = frameIndex)
          => UNCHANGED <<state, frameIndex, data, error, fetchFrame, cache,
                         mailbox>>
     /\ (/\ state = "fetching" /\ ~stopped /\ fetchFrame.idx = frameIndex
         /\ last'.op \in {"put", "reject"})
          => /\ state' \in {"success", "error_fatal"}
             /\ frameIndex' = frameIndex
             /\ last'.op = "put" => data' = Bitmap(frameIndex)]_vars

\* request(K) was taken while a store read for K was in flight.
C17_Witness ==
  /\ last.op = "request" /\ last.prev = "fetching" /\ last.key = last.pidx
  /\ state = "fetching" /\ fetchFrame.phase \in {"get", "decode"}
  /\ fetchFrame.idx = frameIndex

\* C18: when the store read for the active index K succeeds but decoding
\* fails, the resolver moves to Failed(K, DecodeError) with the bitmap absent,
\* and no cache entry for K is created.
C18_DecodeFailureFails ==
  [][(/\ ~stopped /\ fetchFrame.phase = "decode"
      /\ fetchFrame.idx = frameIndex /\ last'.op = "reject")
       => /\ state' = "error_fatal"
          /\ frameIndex' = frameIndex
          /\ error' = FetchError(frameIndex, "Decode")
          /\ data' = NoData
          /\ frameIndex \notin Keys(cache')]_vars

\* The decode of the requested frame has failed.
C18_Witness ==
  /\ last.op = "reject" /\ state = "error_fatal"
  /\ error = FetchError(frameIndex, "Decode")
  /\ last.key = frameIndex

\* C19: on a miss whose read and decode succeed, the value put into the cache
\* is the decoded bitmap, and a later request answered from the cache
\* resolves to that decoded bitmap (not to the raw stored frame).
C19_CacheHoldsDecodedBitmap ==
  /\ last.op = "put" => Entry(cache, last.key).value = Bitmap(last.key)
  /\ last.op = "resolve" => data = Bitmap(last.key)

\* C20: while the resolver is fetching, bitmap and error are both absent.
C20_FetchingHasNoOutcome ==
  state = "fetching" => (data = NoData /\ error = NoError)

\* A request has moved the resolver from success back to fetching.
C20_Witness ==
  /\ state = "fetching" /\ last.op = "request"
  /\ last.prev = "success" /\ last.pdata # NoData

\* C21: a request(K) that hits the cache leads directly to Resolved(K, cached
\* value): right after the step that takes the request and makes the lookup
\* the resolver is in success with the cached value as data, fetching is not
\* entered, and no RESOLVE is left waiting behind a visible snapshot.
C21_HitResolvesDirectly ==
  (last.op = "request" /\ last.got /\ last.hit)
    => /\ state = "success"
       /\ frameIndex = last.key
       /\ data.frame = last.key
       /\ mailbox = <<>>

\* A store read attempt starts in this step: the callback calls openDB.
ReadStarts ==
  \/ pending' > pending
  \/ fetchFrame'.phase = "open" /\ fetchFrame' # fetchFrame

\* C22: explicit retry only.  A store read attempt starts only in a step
\* that takes a request, is for the index of that request, and is the only
\* one that step starts; so a request causes at most one attempt, and after
\* a failed fetch nothing reads the store until a new request arrives.
C22_ExplicitRetryOnly ==
  [][ReadStarts
       => /\ nreq' = nreq + 1
          /\ pending' = pending + 1
          /\ fetchFrame' = [phase |-> "open", idx |-> lastReq']]_vars

\* The only request's fetch has failed, time has passed and no read is pending.
C22_Witness ==
  /\ nreq = 1 /\ state = "error_fatal" /\ last.op = "tick"
  /\ pending = 0 /\ fetchFrame.phase = "none"

C24_RendererKeepsLastBitmap ==
  /\ Len(layer) <= 1
  /\ (nsnap > 0 /\ ~IsImageBitmap(snapshot.data)) => layer = prevLayer
  /\ (nsnap > 0 /\ IsImageBitmap(snapshot.data)) => layer = <<snapshot.data>>
  /\ (nsnap > 0 /\ snapshot.state \in {"fetching", "error_fatal"})
       => layer = prevLayer

\* A bitmap was displayed and a snapshot without one has been given since.
C24_Witness ==
  /\ nsnap > 1 /\ snapshot.state \in {"fetching", "error_fatal"}
  /\ layer # <<>> /\ layer = prevLayer

\* C25: every FETCH_FRAME key the timeline sends (mouse scrub, ArrowLeft,
\* ArrowRight, from any current time of the clamped range) is a non-negative
\* integer frame index.
C25_ScrubbedKeyIsFrameIndex ==
  scrubbed # <<>> => scrubbed[1] \in Nat

\* C26: at most one store read is outstanding at any time.  A fetchFrame
\* callback is started only by a step that enters fetching from idle or
\* success (error has no way in) while no read is outstanding, and fetching
\* is left only by the RESOLVE or REJECT of the callback now running, which
\* has nothing left outstanding then.
C26_OneReadOutstanding ==
  [][/\ pending' <= 1
     /\ pending' > pending
          => /\ state \in {"idle", "success"} /\ state' = "fetching"
             /\ pending = 0
     /\ (state = "fetching" /\ state' # "fetching")
          => /\ last'.op \in {"put", "reject", "resolve"}
             /\ fetchFrame.phase # "none" \/ mailbox # <<>>
             /\ fetchFrame' = NoFetch /\ pending' = 0]_vars

\* A second read was started after the first one had ended.
C26_Witness ==
  /\ pending = 1 /\ fetchFrame.phase = "get" /\ state = "fetching"
  /\ nreq > 1 /\ last.op = "open" /\ cache # <<>>

\* C27: with a single request(K) and no later request the resolver leaves
\* fetching: once the store read and decode started for the only request have
\* ended (success, key not found, decode error, store open failure, or an
\* error named AbortError) and nothing waits in the mailbox, a RESOLVE or
\* REJECT has been delivered and the machine is in success or error_fatal.
C27_SingleRequestLeavesFetching ==
  (/\ nreq = 1 /\ ~stopped
   /\ pending = 0 /\ fetchFrame.phase = "none" /\ mailbox = <<>>)
    => state \in {"success", "error_fatal"}

\* C28: in every reachable state context.data is non-null exactly when the
\* machine is in success, context.error is non-null exactly when it is in the
\* failed state error_fatal, and the two are never both non-null.
C28_DataAndErrorFollowState ==
  /\ data # NoData <=> state = "success"
  /\ error # NoError <=> state = "error_fatal"
  /\ ~(data # NoData /\ error # NoError)

\* The machine has failed after an earlier success: the data of the success
\* is gone and the error is set.
C28_Witness ==
  /\ state = "error_fatal" /\ error # NoError /\ data = NoData
  /\ nreq > 1 /\ cache # <<>>

\* C29: import and fetch agree on keys.  With S the scene of the route, every
\* file the import worker has stored from position i of the selected list
\* lies under the key the fetcher reads for request(i) on S, so
\* getFrameFromIDB finds that file under that key.
C29_ImportAndFetchKeysAgree ==
  /\ \A e \in idb : e.key = StoreKey(iDBKeyPrefix, e.file)
  /\ \A n \in 1..Len(stored) :
       [key |-> StoreKey(iDBKeyPrefix, stored[n]), file |-> stored[n]] \in idb

\* A whole directory was imported for a scene whose id is the separator text.
C29_Witness ==
  /\ saveState = "complete" /\ Len(stored) = MaxFiles
  /\ iDBKeyPrefix = separator
  /\ Cardinality(idb) = MaxFiles

\* The positions 0 .. n-1 in list order.
Positions(n) == [p \in 1..n |-> p - 1]

\* C30: in directorySaveMachine 0 <= savedFiles <= totalFiles holds, within a
\* saving session savedFiles never decreases, and the machine is in complete
\* only after the worker has stored every selected file, in list order, under
\* its key, and has posted PROGRESS_COMPLETE.
C30_SavedFilesWithinTotal ==
  [][/\ 0 <= savedFiles' /\ savedFiles' <= totalFiles'
     /\ (saveState = "saving" /\ saveState' = "saving")
          => savedFiles' >= savedFiles
     /\ saveState' = "complete"
          => /\ stored' = Positions(totalFiles')
             /\ \A p \in 0..(totalFiles' - 1) :
                  [key |-> ImportKey(iDBKeyPrefix', p), file |-> p] \in idb'
             /\ posted' # <<>>
             /\ posted'[Len(posted')] = "PROGRESS_COMPLETE"
             /\ savedFiles' = totalFiles']_vars

\* A directory of several files was imported completely.
C30_Witness ==
  /\ saveState = "complete" /\ totalFiles = MaxFiles
  /\ savedFiles = totalFiles /\ Len(stored) = totalFiles

\* The worker of this session has posted ERROR.
ErrorPosted == posted # <<>> /\ posted[Len(posted)] = "ERROR"

\* C31: error handling of directorySaveMachine.  Once the worker has posted
\* ERROR it stores nothing more and posts nothing more; the ERROR taken in
\* saving moves the machine to error with errorMessage set to the message of
\* the failure; in error no event but RESET changes anything, and RESET leads
\* to idle with the context as it was.
C31_SaveErrorStopsImport ==
  [][/\ (ErrorPosted /\ saveState' = saveState)
          => (idb' = idb /\ stored' = stored /\ posted' = posted)
     /\ (saveState = "saving" /\ saveState' = "error")
          => /\ ErrorPosted
             /\ outbox # <<>> /\ Head(outbox).type = "ERROR"
             /\ errorMessage' = Head(outbox).message
             /\ errorMessage' # ""
     /\ saveState = "error"
          => /\ saveState' \in {"error", "idle"}
             /\ UNCHANGED <<totalFiles, savedFiles, errorMessage,
                            currentFileName, idb, sceneFramesCount, stored>>
     /\ saveState' = "error" => saveState \in {"saving", "error"}]_vars

\* Storing a file failed in the middle of an import: the machine is in error
\* with the message of the put, and the later files were not stored.
C31_Witness ==
  /\ saveState = "error" /\ errorMessage = "put"
  /\ Len(stored) >= 1 /\ Len(stored) < totalFiles - 1
  /\ Cardinality(idb) = Len(stored)

\* C32: when an import of n files has completed, the scene's framesCount
\* cell holds n, the number of files imported.
C32_FramesCountIsImported ==
  saveState = "complete" => sceneFramesCount = totalFiles

\* C33: the only control states frameFetcherMachine reaches are idle,
\* fetching, success and error_fatal.  Along the declared transitions nothing
\* else is reachable from the initial state, so setup and error are never
\* entered; no transition of a reachable state assigns context.db, so db
\* stays null; every change of state the machine makes is a declared
\* transition; and once idle is left it is not entered again.
C33_ReachableControlStates ==
  /\ reachable = {"idle", "fetching", "success", "error_fatal"}
  /\ state \in reachable
  /\ \A t \in transitions : t.from \in reachable => ~t.assignsDb
  /\ last.prev # state => <<last.prev, state>> \in edges
  /\ last.prev # "idle" => state # "idle"

\* The machine went from idle through fetching and success to error_fatal.
C33_Witness ==
  /\ state = "error_fatal" /\ last.op = "reject" /\ last.prev = "fetching"
  /\ nreq >= 2 /\ Keys(cache) # {} /\ ~stopped


\* C34: in bezierPenToolMachine, context.points is non-empty in every
\* substate of drawing, its length never decreases from one substate of
\* drawing to the next, and when the machine reaches the final state done
\* the curve of its output has at least two points.
C34_PointsGrowWhileDrawing ==
  [][ /\ penState' \in drawing => points' # <<>>
      /\ (penState \in drawing /\ penState' \in drawing) =>
            Len(points') >= Len(points)
      /\ penState' = "done" =>
            /\ output' = <<[curve |-> points']>>
            /\ Len(points') >= 2 ]_vars

\* A path of three points was finished with ESCAPE after its last control
\* was dragged.
C34_Witness ==
  /\ penState = "done"
  /\ output # <<>>
  /\ Len(output[1].curve) >= 3
  /\ output[1].curve[1].control2 # NoPoint

====
